---- MODULE Spec2Model ----
(***************************************************************************)
(* Model of pydex/classes/RiverscapesAPI.py: the session (bearer token and *)
(* refresh timer), run_query with its re-authentication retry, the         *)
(* date-partitioned search generator, process_search_results_async, the    *)
(* local server that waits for the authorization code, and download_file.  *)
(*                                                                         *)
(* The specifications share the module's variables:                        *)
(*   Spec         the session, refresh_token, the timer and run_query      *)
(*   SearchSpec   search() consumed by a plain for loop                    *)
(*   AnyServerSpec search() against a server answering with any pages      *)
(*   DispatchSpec search() consumed by process_search_results_async        *)
(*   DispatchFairSpec  DispatchSpec with progress                          *)
(*   ListenerSpec the local server of _wait_for_auth_code                  *)
(*   DownloadSpec download_file                                            *)
(***************************************************************************)
EXTENDS Integers, Sequences, FiniteSets, TLC

VARIABLES
    \* ---- session (RiverscapesAPI.__init__) ----
    machine_auth,     \* TRUE when machine credentials were given
    dev_headers,      \* TRUE when non-empty dev_headers were given
    access_token,     \* NoToken (None) or the id of the token held
    token_timeout,    \* the threading.Timer: [st, delay]
    issued,           \* tokens issued so far by the token endpoints
    shut,             \* shutdown() has been called
    \* ---- threads in refresh_token / run_query ----
    pc,               \* per thread: "idle" | "sent" | "acquiring" | "storing"
    ctx,              \* what the main thread returns to after refresh_token
    q,                \* history of the current run_query call
    timerFired,       \* how many times a refresh timer has fired
    timerRenewed,     \* how many of those firings got a new token and timer
    lastRefresh,      \* how the main thread's last refresh_token call ended
    res,              \* per thread: the token its exchange returned
    \* ---- search() inputs and the remote dataset ----
    recs,             \* creation time (ms) of each remote record, by id
    page_size, max_results, callerFrom, callerTo, now_date,
    \* ---- search() generator frame ----
    spc, overall_total, search_to_date, search_from_date,
    outer_counter, num_results, projects, inner_counter, project,
    yielded,          \* ids yielded so far, in order
    pageReqs,         \* the page requests sent so far (after the probe)
    \* ---- process_search_results_async ----
    max_workers, dpc, units, futures, log,
    \* ---- _wait_for_auth_code: the local HTTP server ----
    lpc,              \* serve_forever: "off" | "serving" | "stopped"
    shutdown_request, \* set by server.shutdown()
    pending,          \* connections waiting to be accepted, oldest first
    handlers,         \* one AuthHandler thread per accepted request
    auth_code,        \* server.auth_code: NoCode or the request that set it
    \* ---- download_file ----
    localFile,        \* content at local_path, or NoFile
    remote,           \* content of the remote file
    dirOK,            \* len(os.path.dirname(local_path)) >= 5
    calls             \* the download_file calls made so far

sessionVars == <<machine_auth, dev_headers, access_token, token_timeout,
                 issued, shut, pc, ctx, q, timerFired, timerRenewed,
                 lastRefresh, res>>
inputVars   == <<recs, page_size, max_results, callerFrom, callerTo, now_date>>
frameVars   == <<spc, overall_total, search_to_date, search_from_date,
                 outer_counter, num_results, projects, inner_counter,
                 project, yielded, pageReqs>>
searchVars  == <<inputVars, frameVars>>
dispatchVars == <<max_workers, dpc, units, futures, log>>
listenerVars == <<lpc, shutdown_request, pending, handlers, auth_code>>
downloadVars == <<localFile, remote, dirOK, calls>>
auxVars == <<listenerVars, downloadVars>>
vars == <<sessionVars, searchVars, dispatchVars, auxVars>>

-----------------------------------------------------------------------------
(* Bounds of the model *)

MaxTokens   == 3    \* token acquisitions explored
MaxRequests == 3    \* requests explored within one run_query call
MaxRecords  == 4    \* size of the remote dataset
MaxTime     == 3    \* creation timestamps are 1..MaxTime (ms)
MaxPage     == 2    \* page_size is 1..MaxPage
MaxCap      == 2    \* max_results is None or 1..MaxCap
MaxWorkers  == 2    \* max_workers is 1..MaxWorkers
MaxContent  == 3    \* distinct file contents
EtagSpace   == 2    \* distinct checksums
MaxCalls    == 2    \* download_file calls in one run
MaxGets     == 3    \* requests reaching the local server in one run
TicksPerMs  == 2    \* datetime resolution finer than the wire's milliseconds

(* Program constants *)

RefreshMargin == 20              \* expires_in - 20
NoToken == 0                     \* access_token = None
NoDate  == -1                    \* a None date bound
NoCap   == 0                     \* max_results = None
NoProject == 0                   \* project = None
NoCode == 0                      \* the server has no auth_code attribute
NoFile == 0                      \* nothing at local_path
OkStatus == 200                  \* the only status run_query reads a body from

Threads == {"main", "timer"}
ExpiresIn == {20, 30, 60}        \* expires_in values the token endpoint returns

-----------------------------------------------------------------------------
(* Session: shutdown, refresh_token *)

\* threading.Timer.cancel(): stops a timer that has not fired yet
CancelTimer(t) ==
    IF t.st = "armed" THEN [t EXCEPT !.st = "cancelled"] ELSE t

\* refresh_token's early returns: dev headers, or a token exists and not force
NeedsAcquire(force) ==
    /\ ~dev_headers
    /\ ~(access_token # NoToken /\ ~force)

\* a bug: no authorization header is ever attached
HeadersNever(tok) == <<>>

\* the headers run_query sends: {"authorization": "Bearer " + token} when a
\* token is held, {} otherwise
Headers(tok) == IF tok # NoToken THEN <<tok>> ELSE <<>>

EmptyCall == [query |-> "none", variables |-> "none", reqs |-> <<>>,
              resps |-> <<>>, status |-> 0, refreshes |-> 0, acquired |-> 0,
              result |-> "none", error |-> <<>>]

\* requests.post(self.uri, ..., headers=headers): one request on the wire
SendRequest(call, tok) ==
    [call EXCEPT !.reqs = Append(@, [headers |-> Headers(tok), token |-> tok])]

SessionInit ==
    /\ machine_auth \in BOOLEAN
    /\ dev_headers \in BOOLEAN
    /\ access_token = NoToken
    /\ token_timeout = [st |-> "none", delay |-> 0]
    /\ issued = 0
    /\ shut = FALSE
    /\ pc = [t \in Threads |-> "idle"]
    /\ ctx = "direct"
    /\ q = EmptyCall
    /\ timerFired = 0
    /\ timerRenewed = 0
    /\ lastRefresh = "none"
    /\ res = [t \in Threads |-> NoToken]

\* shutdown(): cancel the pending timer
Shutdown ==
    /\ pc["main"] = "idle"
    /\ ~shut
    /\ shut' = TRUE
    /\ token_timeout' = CancelTimer(token_timeout)
    /\ UNCHANGED <<machine_auth, dev_headers, res, access_token, issued, pc, ctx,
                   q, timerFired, timerRenewed, lastRefresh>>

\* refresh_token(force) called by the client code (__enter__, __main__), up
\* to the point where a token has to be fetched
CallRefresh(force) ==
    /\ pc["main"] = "idle"
    /\ ~shut
    /\ token_timeout' = CancelTimer(token_timeout)
    /\ IF NeedsAcquire(force)
       THEN /\ pc' = [pc EXCEPT !["main"] = "acquiring"]
            /\ ctx' = "direct"
            /\ lastRefresh' = "none"
       ELSE /\ lastRefresh' = "skipped"
            /\ UNCHANGED <<pc, ctx>>
    /\ UNCHANGED <<machine_auth, dev_headers, res, access_token, issued, shut, q,
                   timerFired, timerRenewed>>

\* what the token exchange can do, per credential mode
Outcomes == IF machine_auth THEN {"ok", "fail"}
            ELSE {"ok", "no_code", "http_error"}

\* the exception each failing outcome raises
Raised(outcome) ==
    IF outcome = "http_error" THEN "HTTPError" ELSE "RiverscapesAPIException"

\* the Timer armed after an interactive exchange; machine mode arms none
ArmTimer(t, expires_in) ==
    IF machine_auth THEN t
    ELSE [st |-> "armed", delay |-> expires_in - RefreshMargin]

\* the return of refresh_token into its caller in thread th: run_query
\* re-sends the query, anything else goes on
ReturnToCaller(th, outcome) ==
    IF th = "main" /\ ctx = "query"
    THEN /\ IF outcome = "ok"
            THEN /\ Len(q.reqs) < MaxRequests
                 /\ q' = SendRequest([q EXCEPT !.acquired = @ + 1],
                                     access_token')
                 /\ pc' = [pc EXCEPT ![th] = "sent"]
            ELSE /\ q' = [q EXCEPT !.result = Raised(outcome)]
                 /\ pc' = [pc EXCEPT ![th] = "idle"]
         /\ UNCHANGED lastRefresh
    ELSE /\ pc' = [pc EXCEPT ![th] = "idle"]
         /\ lastRefresh' = IF th # "main" THEN lastRefresh
                            ELSE IF outcome = "ok" THEN "ok"
                            ELSE Raised(outcome)
         /\ UNCHANGED q

\* the token exchange of refresh_token in thread th. The machine branch
\* stores the token and returns; the interactive branch creates and starts
\* the Timer and has yet to store the token
RefreshFinish(th, outcome, expires_in) ==
    /\ pc[th] = "acquiring"
    /\ issued < MaxTokens
    /\ outcome \in Outcomes
    /\ IF outcome = "ok"
       THEN /\ issued' = issued + 1
            /\ token_timeout' = ArmTimer(token_timeout, expires_in)
            /\ IF machine_auth
               THEN /\ access_token' = issued + 1
                    /\ timerRenewed' = IF th = "timer" THEN timerRenewed + 1
                                        ELSE timerRenewed
                    /\ ReturnToCaller(th, outcome)
                    /\ UNCHANGED res
               ELSE /\ res' = [res EXCEPT ![th] = issued + 1]
                    /\ pc' = [pc EXCEPT ![th] = "storing"]
                    /\ UNCHANGED <<access_token, timerRenewed, q, lastRefresh>>
       ELSE /\ ReturnToCaller(th, outcome)
            /\ UNCHANGED <<access_token, issued, token_timeout, timerRenewed,
                           res>>
    /\ UNCHANGED <<machine_auth, dev_headers, shut, ctx, timerFired>>

\* self.access_token = res["access_token"], the last assignment of the
\* interactive branch, and the return into the caller
StoreToken(th) ==
    /\ pc[th] = "storing"
    /\ access_token' = res[th]
    /\ timerRenewed' = IF th = "timer" THEN timerRenewed + 1 ELSE timerRenewed
    /\ ReturnToCaller(th, "ok")
    /\ UNCHANGED <<machine_auth, dev_headers, token_timeout, issued, shut, ctx,
                   timerFired, res>>

\* the Timer's thread runs its function: refresh_token() with force = False.
\* The thread that started the Timer stores the token right after start(),
\* so the function runs before that only when the delay is not positive
TimerFire ==
    /\ token_timeout.st = "armed"
    /\ pc["timer"] = "idle"
    /\ (\E th \in Threads : pc[th] = "storing") => token_timeout.delay <= 0
    /\ token_timeout' = CancelTimer([token_timeout EXCEPT !.st = "fired"])
    /\ timerFired' = timerFired + 1
    /\ pc' = [pc EXCEPT !["timer"] =
                 IF NeedsAcquire(FALSE) THEN "acquiring" ELSE "idle"]
    /\ UNCHANGED <<machine_auth, dev_headers, res, access_token, issued, shut, ctx,
                   q, timerRenewed, lastRefresh>>

-----------------------------------------------------------------------------
(* run_query *)

Responses == {"ok", "auth", "gqlerr", "http"}

QueryTexts == {"query projects", "query files"}
VariableSets == {"{}", "{id: 1}"}

\* the statuses a response of each kind can carry
Statuses(kind) == IF kind = "http" THEN {204, 401, 500} ELSE {OkStatus}

\* a bug: the message leaves the status code out
ErrorMessageNoStatus(status, query, variables) == <<query, variables>>

\* f"Query failed to run by returning code of {request.status_code}.
\* {query} {json.dumps(variables)}"
ErrorMessage(status, query, variables) == <<status, query, variables>>

\* run_query(query, variables): the headers and the first request
RunQuery(query, variables) ==
    /\ pc["main"] = "idle"
    /\ ~shut
    /\ q' = SendRequest([EmptyCall EXCEPT !.query = query,
                                          !.variables = variables],
                        access_token)
    /\ pc' = [pc EXCEPT !["main"] = "sent"]
    /\ UNCHANGED <<machine_auth, dev_headers, res, access_token, token_timeout,
                   issued, shut, ctx, timerFired, timerRenewed, lastRefresh>>

\* the response arrives: status 200 without errors, 200 with an
\* authentication error, 200 with other errors only, or another status
Response(kind, status) ==
    /\ pc["main"] = "sent"
    /\ status \in Statuses(kind)
    /\ LET got == [q EXCEPT !.resps = Append(@, kind), !.status = status] IN
       CASE status # OkStatus ->
              /\ q' = [got EXCEPT !.result = "RiverscapesAPIException",
                                  !.error = ErrorMessage(status, q.query,
                                                         q.variables)]
              /\ pc' = [pc EXCEPT !["main"] = "idle"]
              /\ UNCHANGED <<token_timeout, ctx>>
         [] kind = "ok" ->
              /\ q' = [got EXCEPT !.result = "ok"]
              /\ pc' = [pc EXCEPT !["main"] = "idle"]
              /\ UNCHANGED <<token_timeout, ctx>>
         [] kind = "gqlerr" ->
              /\ q' = [got EXCEPT !.result = "None"]
              /\ pc' = [pc EXCEPT !["main"] = "idle"]
              /\ UNCHANGED <<token_timeout, ctx>>
         [] kind = "auth" ->
              /\ token_timeout' = CancelTimer(token_timeout)
              /\ IF NeedsAcquire(FALSE)
                 THEN /\ pc' = [pc EXCEPT !["main"] = "acquiring"]
                      /\ ctx' = "query"
                      /\ q' = [got EXCEPT !.refreshes = @ + 1]
                 ELSE /\ Len(q.reqs) < MaxRequests
                      /\ q' = SendRequest([got EXCEPT !.refreshes = @ + 1],
                                          access_token)
                      /\ UNCHANGED <<pc, ctx>>
    /\ UNCHANGED <<machine_auth, dev_headers, res, access_token, issued, shut,
                   timerFired, timerRenewed, lastRefresh>>

-----------------------------------------------------------------------------
(* search(): dates, the remote searchProjects query, the generator *)

Min(a, b) == IF a < b THEN a ELSE b

\* dateparse of a wire date (milliseconds) into a datetime (ticks)
dateparse(ms) == ms * TicksPerMs

\* format_date: a datetime serialised to the wire's millisecond form
format_date(d) == d \div TicksPerMs

\* timedelta(milliseconds=1)
Millisecond == TicksPerMs

\* RiverscapesProject.created_date of record p
created_date(p) == dateparse(recs[p])

\* ids of the records inside the createdOn window, sorted DATE_CREATED_DESC
\* (recs is kept in that order); a NoDate bound is open
Match(from, to) ==
    SelectSeq([i \in 1..Len(recs) |-> i],
              LAMBDA i : /\ (to = NoDate \/ recs[i] <= to)
                         /\ (from = NoDate \/ recs[i] >= from))

\* the searchProjects query: the total and the first `limit` records at
\* offset 0
SearchProjects(from, to, limit) ==
    LET m == Match(from, to) IN
    [total |-> Len(m), results |-> SubSeq(m, 1, Min(limit, Len(m)))]

\* the remote datasets: up to MaxRecords creation times, newest first (the
\* order the index serves them in), equal times allowed
Datasets ==
    UNION {{d \in [1..n -> 1..MaxTime] : \A i \in 1..(n - 1) : d[i] >= d[i + 1]}
           : n \in 0..MaxRecords}

SearchIdle ==
    /\ spc = "idle"
    /\ overall_total = 0
    /\ search_to_date = 0
    /\ search_from_date = NoDate
    /\ outer_counter = 0
    /\ num_results = 0
    /\ projects = <<>>
    /\ inner_counter = 0
    /\ project = NoProject
    /\ yielded = <<>>
    /\ pageReqs = <<>>

SearchInputs ==
    /\ recs \in Datasets
    /\ page_size \in 1..MaxPage
    /\ max_results \in (-1)..MaxCap
    /\ callerFrom \in {NoDate} \cup 1..MaxTime
    /\ callerTo \in {NoDate} \cup 1..MaxTime
    /\ now_date \in {dateparse(MaxTime) + k : k \in 0..(TicksPerMs - 1)}

\* the probe (limit 0) answered with a total, and the initial window
ProbeAnswered(total) ==
    /\ spc = "idle"
    /\ overall_total' = total
    /\ search_to_date' = IF callerTo # NoDate THEN dateparse(callerTo)
                         ELSE now_date
    /\ search_from_date' = IF callerFrom # NoDate THEN dateparse(callerFrom)
                           ELSE NoDate
    /\ num_results' = 1
    /\ outer_counter' = 0
    /\ spc' = "loop"
    /\ UNCHANGED <<projects, inner_counter, project, yielded, pageReqs>>

\* the probe answered by the server holding recs
SearchStart == ProbeAnswered(SearchProjects(callerFrom, callerTo, 0).total)

\* a bug: the loop runs on until a page comes back empty
LoopGuardNoTotal == num_results > 0

\* a bug: an empty page does not end the loop
LoopGuardNoEmptyTest == outer_counter < overall_total

\* while outer_counter < overall_total and num_results > 0
LoopGuard == outer_counter < overall_total /\ num_results > 0

\* a bug: every page request carries the initial upper bound
PageRequestStaleTo ==
    [to     |-> IF callerTo # NoDate THEN callerTo ELSE format_date(now_date),
     from   |-> IF search_from_date # NoDate THEN format_date(search_from_date)
                ELSE NoDate,
     limit  |-> page_size,
     offset |-> 0]

\* a bug: the caller's lower bound is dropped from the page requests
PageRequestNoFrom ==
    [to     |-> format_date(search_to_date),
     from   |-> NoDate,
     limit  |-> page_size,
     offset |-> 0]

\* a bug: the pages are asked for by offset
PageRequestOffset ==
    [to     |-> format_date(search_to_date),
     from   |-> IF search_from_date # NoDate THEN format_date(search_from_date)
                ELSE NoDate,
     limit  |-> page_size,
     offset |-> outer_counter]

\* the createdOn window and paging arguments of a page request
PageRequest ==
    [to     |-> format_date(search_to_date),
     from   |-> IF search_from_date # NoDate THEN format_date(search_from_date)
                ELSE NoDate,
     limit  |-> page_size,
     offset |-> 0]

\* one pass of the while loop up to the for loop: a page is requested and
\* answered with the records in page
PageAnswered(page) ==
    /\ spc = "loop"
    /\ LoopGuard
    /\ pageReqs' = Append(pageReqs, PageRequest)
    /\ projects' = page
    /\ num_results' = Len(page)
    /\ inner_counter' = 0
    /\ project' = NoProject
    /\ spc' = "for"
    /\ UNCHANGED <<overall_total, search_to_date, search_from_date,
                   outer_counter, yielded>>

\* the page answered by the server holding recs
SearchPage ==
    PageAnswered(SearchProjects(PageRequest.from, PageRequest.to,
                                PageRequest.limit).results)

\* the while loop ends: the generator is exhausted
SearchExit ==
    /\ spc = "loop"
    /\ ~LoopGuard
    /\ spc' = "done"
    /\ UNCHANGED <<overall_total, search_to_date, search_from_date,
                   outer_counter, num_results, projects, inner_counter,
                   project, yielded, pageReqs>>

\* for search_result in projects: ... yield (project, stats, total, _prg)
SearchYield ==
    /\ spc = "for"
    /\ inner_counter < Len(projects)
    /\ project' = projects[inner_counter + 1]
    /\ yielded' = Append(yielded, project')
    /\ spc' = "yield"
    /\ UNCHANGED <<overall_total, search_to_date, search_from_date,
                   outer_counter, num_results, projects, inner_counter,
                   pageReqs>>

\* a bug: the result cap is never looked at
CapReachedNever(count) == FALSE

\* max_results and max_results > 0 and outer_counter >= max_results
CapReached(count) ==
    max_results # NoCap /\ max_results > 0 /\ count >= max_results

\* a bug: the count of yielded records is not advanced
SearchResumeNoCount ==
    /\ spc = "yield"
    /\ inner_counter' = inner_counter + 1
    /\ spc' = IF CapReached(outer_counter) THEN "done" ELSE "for"
    /\ UNCHANGED <<overall_total, search_to_date, search_from_date,
                   outer_counter, num_results, projects, project, yielded,
                   pageReqs>>

\* the consumer asks for the next item: the counters and the result cap
SearchResume ==
    /\ spc = "yield"
    /\ inner_counter' = inner_counter + 1
    /\ outer_counter' = outer_counter + 1
    /\ spc' = IF CapReached(outer_counter') THEN "done" ELSE "for"
    /\ UNCHANGED <<overall_total, search_to_date, search_from_date,
                   num_results, projects, project, yielded, pageReqs>>

\* a bug: the last record of the page stays inside the next window
NextToDateInclusive(p) == created_date(p)

\* search_to_date = project.created_date - timedelta(milliseconds=1)
NextToDate(p) == created_date(p) - Millisecond

\* after the for loop: move the window's upper bound below the last record
SearchPageEnd ==
    /\ spc = "for"
    /\ inner_counter = Len(projects)
    /\ search_to_date' = IF project # NoProject THEN NextToDate(project)
                         ELSE search_to_date
    /\ spc' = "loop"
    /\ UNCHANGED <<overall_total, search_from_date, outer_counter,
                   num_results, projects, inner_counter, project, yielded,
                   pageReqs>>

\* run_query raises inside the generator, at the probe or at a page request
SearchRaise ==
    /\ spc = "idle" \/ (spc = "loop" /\ LoopGuard)
    /\ spc' = "raised"
    /\ UNCHANGED <<overall_total, search_to_date, search_from_date,
                   outer_counter, num_results, projects, inner_counter,
                   project, yielded, pageReqs>>

\* the generator's own steps, between two requests of the consumer
SearchStep ==
    \/ SearchStart
    \/ SearchPage
    \/ SearchExit
    \/ SearchYield
    \/ SearchPageEnd

-----------------------------------------------------------------------------
(* process_search_results_async *)

\* a bug: the limit is tested off by one
HasRoomOffByOne(count, limit) == count <= limit

\* a bug: the limit is not tested at all
HasRoomAlways(count, limit) == TRUE

\* a bug: the producer and the pool always find themselves at capacity
HasRoomNever(count, limit) == FALSE

\* room under the max_workers limit: the negation of len(futures) >=
\* max_workers, and the executor's test before it starts another worker
HasRoom(count, limit) == count < limit

Finished(u) == units[u].st \in {"ok", "exc"}
Running == {u \in DOMAIN units : units[u].st = "running"}
Queued  == {u \in DOMAIN units : units[u].st = "queued"}

DispatchOff ==
    /\ max_workers = 1
    /\ dpc = "off"
    /\ units = <<>>
    /\ futures = {}
    /\ log = <<>>

\* a bug: a record pulled from the search at capacity is waited for but
\* never submitted
SubmitDropsWhenFull ==
    /\ dpc = "iter"
    /\ spc = "yield"
    /\ LET done == {f \in futures : Finished(f)}
           full == ~HasRoom(Cardinality(futures), max_workers) IN
       /\ full => done # {}
       /\ units' = IF full THEN units
                   ELSE Append(units, [rec |-> project, st |-> "queued"])
       /\ futures' = IF full THEN futures \ done
                     ELSE futures \cup {Len(units) + 1}
    /\ SearchResume
    /\ UNCHANGED <<max_workers, dpc, log>>

\* the for loop's body for the item the generator has just yielded: wait for
\* a finished future when at capacity, submit the unit, ask for the next item
Submit ==
    /\ dpc = "iter"
    /\ spc = "yield"
    /\ LET done == {f \in futures : Finished(f)}
           full == ~HasRoom(Cardinality(futures), max_workers)
           kept == IF full THEN futures \ done ELSE futures IN
       /\ full => done # {}
       /\ units' = Append(units, [rec |-> project, st |-> "queued"])
       /\ futures' = kept \cup {Len(units) + 1}
    /\ SearchResume
    /\ UNCHANGED <<max_workers, dpc, log>>

\* a worker thread of the pool takes the oldest queued unit
StartUnit(u) ==
    /\ u \in Queued
    /\ \A v \in Queued : u <= v
    /\ HasRoom(Cardinality(Running), max_workers)
    /\ units' = [units EXCEPT ![u].st = "running"]
    /\ UNCHANGED <<max_workers, dpc, futures, log>>

\* the callback returns or raises; the future holds the outcome
FinishUnit(u, raises) ==
    /\ u \in Running
    /\ units' = [units EXCEPT ![u].st = IF raises THEN "exc" ELSE "ok"]
    /\ UNCHANGED <<max_workers, dpc, futures, log>>

\* a bug: the executor is left without waiting for its work
ExecutorNoWait == TRUE

\* leaving the with block: ThreadPoolExecutor.__exit__ is shutdown(wait=True),
\* which returns once every submitted unit has run
ExecutorDrained == \A u \in DOMAIN units : Finished(u)

\* the generator raised: the exception leaves the for loop and the with
\* block, and comes out of the dispatcher
Propagate ==
    /\ dpc = "iter"
    /\ spc = "raised"
    /\ ExecutorDrained
    /\ dpc' = "raised"
    /\ UNCHANGED <<max_workers, units, futures, log>>

\* the search is exhausted: the for loop ends
Exhausted ==
    /\ dpc = "iter"
    /\ spc = "done"
    /\ dpc' = "collect"
    /\ UNCHANGED <<max_workers, units, futures, log>>

\* as_completed(futures) hands over a finished future; result() re-raises
\* the callback's exception, which is logged under project.id
Collect(f) ==
    /\ dpc = "collect"
    /\ f \in futures
    /\ Finished(f)
    /\ futures' = futures \ {f}
    /\ log' = IF units[f].st = "exc"
              THEN Append(log, [named |-> project, unit |-> f])
              ELSE log
    /\ UNCHANGED <<max_workers, dpc, units>>

\* every remaining future has been handed over; the executor's with block
\* exits and the function returns
Return ==
    /\ dpc = "collect"
    /\ futures = {}
    /\ ExecutorDrained
    /\ dpc' = "returned"
    /\ UNCHANGED <<max_workers, units, futures, log>>

-----------------------------------------------------------------------------
(* _wait_for_auth_code: the local redirect listener *)

ListenerOff ==
    /\ lpc = "off"
    /\ shutdown_request = FALSE
    /\ pending = <<>>
    /\ handlers = <<>>
    /\ auth_code = NoCode

\* the query of a GET, as the names of the parameters it carries
Queries == SUBSET {"code", "state"}

\* if "=" in query and "code" in query
CarriesCode(query) == query # {} /\ "code" \in query

\* requests that have reached the socket, accepted or not
Arrived == Len(pending) + Len(handlers)

\* a browser connects to localhost:auth_port; the socket is never closed, so
\* connections queue up whether or not serve_forever is still running
Arrive(query) ==
    /\ lpc # "off"
    /\ Arrived < MaxGets
    /\ pending' = Append(pending, [n |-> Arrived + 1, query |-> query])
    /\ UNCHANGED <<lpc, shutdown_request, handlers, auth_code>>

\* serve_forever's loop: while shutdown has not been requested, accept the
\* oldest connection and hand it to a new thread (ThreadingHTTPServer)
Accept ==
    /\ lpc = "serving"
    /\ ~shutdown_request
    /\ pending # <<>>
    /\ handlers' = Append(handlers, Head(pending) @@ [st |-> "running"])
    /\ pending' = Tail(pending)
    /\ UNCHANGED <<lpc, shutdown_request, auth_code>>

\* AuthHandler.do_GET in its thread: 200 and the HTML body for every GET;
\* with a code in the query, record it and call server.shutdown(), which
\* blocks until serve_forever has left its loop
DoGet(h) ==
    /\ handlers[h].st = "running"
    /\ IF CarriesCode(handlers[h].query)
       THEN /\ auth_code' = handlers[h].n
            /\ shutdown_request' = TRUE
            /\ handlers' = [handlers EXCEPT ![h].st =
                    IF lpc = "serving" THEN "stopping" ELSE "done"]
       ELSE /\ handlers' = [handlers EXCEPT ![h].st = "done"]
            /\ UNCHANGED <<auth_code, shutdown_request>>
    /\ UNCHANGED <<lpc, pending>>

\* serve_forever sees the shutdown request and returns; the threads blocked
\* in server.shutdown() go on
ServeExit ==
    /\ lpc = "serving"
    /\ shutdown_request
    /\ lpc' = "stopped"
    /\ handlers' = [h \in DOMAIN handlers |->
            IF handlers[h].st = "stopping"
            THEN [handlers[h] EXCEPT !.st = "done"] ELSE handlers[h]]
    /\ UNCHANGED <<shutdown_request, pending, auth_code>>

\* Ctrl-C while serving: serve_forever is left through KeyboardInterrupt
Interrupt ==
    /\ lpc = "serving"
    /\ lpc' = "stopped"
    /\ handlers' = [h \in DOMAIN handlers |->
            IF handlers[h].st = "stopping"
            THEN [handlers[h] EXCEPT !.st = "done"] ELSE handlers[h]]
    /\ UNCHANGED <<shutdown_request, pending, auth_code>>

-----------------------------------------------------------------------------
(* download_file *)

Contents == 1..MaxContent

\* what a failed or expired signed URL answers with
ErrorBody == MaxContent + 1

\* the checksum of a file's content: many contents share one checksum
calculate_etag(content) == content % EtagSpace

DownloadOff ==
    /\ localFile = NoFile
    /\ remote = 1
    /\ dirOK = TRUE
    /\ calls = <<>>

ShouldTransferAlways(force, file_is_there, etag_match) == TRUE

\* a bug: only force makes the file be fetched
ShouldTransferForceOnly(force, file_is_there, etag_match) == force

\* if force is True or not file_is_there or not etag_match
ShouldTransfer(force, file_is_there, etag_match) ==
    force \/ ~file_is_there \/ ~etag_match

GetStatuses == {"ok", "failed"}

\* requests.get(downloadUrl): the body is whatever the URL answers with
GetBody(status) == IF status = "ok" THEN remote ELSE ErrorBody

\* download_file(api_file_obj, local_path, force); etag is api_file_obj['etag']
\* and status is what the signed URL answers should a GET be issued
DownloadFile(force, etag, status) ==
    LET file_is_there == localFile # NoFile
        etag_match == file_is_there /\ calculate_etag(localFile) = etag
        call == [force |-> force, etag |-> etag, before |-> localFile,
                 status |-> "none"]
    IN  /\ Len(calls) < MaxCalls
        /\ IF ~dirOK
           THEN /\ calls' = Append(calls, call @@ [get |-> FALSE,
                        after |-> localFile, ret |-> "RiverscapesAPIException"])
                /\ UNCHANGED localFile
           ELSE IF ShouldTransfer(force, file_is_there, etag_match)
           THEN /\ localFile' = GetBody(status)
                /\ calls' = Append(calls, [call EXCEPT !.status = status] @@
                        [get |-> TRUE, after |-> GetBody(status), ret |-> "True"])
           ELSE /\ calls' = Append(calls, call @@ [get |-> FALSE,
                        after |-> localFile, ret |-> "False"])
                /\ UNCHANGED localFile
        /\ UNCHANGED <<remote, dirOK>>

\* the remote file is replaced while the caller still holds a descriptor
RemoteChange ==
    /\ Len(calls) < MaxCalls
    /\ \E c \in Contents \ {remote} : remote' = c
    /\ UNCHANGED <<localFile, dirOK, calls>>

-----------------------------------------------------------------------------
(* Specifications *)

Init ==
    /\ SessionInit
    /\ recs = <<>> /\ page_size = 1 /\ max_results = NoCap
    /\ callerFrom = NoDate /\ callerTo = NoDate /\ now_date = 0
    /\ SearchIdle
    /\ DispatchOff
    /\ ListenerOff
    /\ DownloadOff

Next ==
    \/ \E force \in BOOLEAN : CallRefresh(force) /\ UNCHANGED <<searchVars, dispatchVars, auxVars>>
    \/ \E th \in Threads, o \in {"ok", "fail", "no_code", "http_error"}, e \in ExpiresIn :
          RefreshFinish(th, o, e) /\ UNCHANGED <<searchVars, dispatchVars, auxVars>>
    \/ \E th \in Threads : StoreToken(th) /\ UNCHANGED <<searchVars, dispatchVars, auxVars>>
    \/ TimerFire /\ UNCHANGED <<searchVars, dispatchVars, auxVars>>
    \/ Shutdown /\ UNCHANGED <<searchVars, dispatchVars, auxVars>>
    \/ \E query \in QueryTexts, variables \in VariableSets :
          RunQuery(query, variables) /\ UNCHANGED <<searchVars, dispatchVars, auxVars>>
    \/ \E kind \in Responses, status \in {OkStatus, 204, 401, 500} :
          Response(kind, status) /\ UNCHANGED <<searchVars, dispatchVars, auxVars>>

Spec == Init /\ [][Next]_vars

SessionOff ==
    /\ SessionInit
    /\ machine_auth = TRUE
    /\ dev_headers = FALSE

SearchInit ==
    /\ SessionOff
    /\ SearchInputs
    /\ SearchIdle
    /\ DispatchOff
    /\ ListenerOff
    /\ DownloadOff

SearchNext ==
    \/ SearchStep /\ UNCHANGED <<sessionVars, inputVars, dispatchVars, auxVars>>
    \/ SearchResume /\ UNCHANGED <<sessionVars, inputVars, dispatchVars, auxVars>>

SearchSpec == SearchInit /\ [][SearchNext]_vars

\* a server that answers the probe with any total and each page request
\* with any number of copies of any record it holds
AnyTotals == 0..MaxRecords
AnyPages == {[i \in 1..n |-> r] : n \in 0..(MaxPage + 1), r \in DOMAIN recs}

AnyServerInit ==
    /\ SessionOff
    /\ recs = [i \in 1..MaxPage |-> MaxPage + 1 - i]
    /\ page_size \in 1..MaxPage
    /\ max_results \in {NoCap} \cup 1..MaxCap
    /\ callerFrom = NoDate
    /\ callerTo = NoDate
    /\ now_date = dateparse(MaxTime)
    /\ SearchIdle
    /\ DispatchOff
    /\ ListenerOff
    /\ DownloadOff

AnyServerNext ==
    \/ /\ \E total \in AnyTotals : ProbeAnswered(total)
       /\ UNCHANGED <<sessionVars, inputVars, dispatchVars, auxVars>>
    \/ /\ \E page \in AnyPages : PageAnswered(page)
       /\ UNCHANGED <<sessionVars, inputVars, dispatchVars, auxVars>>
    \/ SearchExit /\ UNCHANGED <<sessionVars, inputVars, dispatchVars, auxVars>>
    \/ SearchYield /\ UNCHANGED <<sessionVars, inputVars, dispatchVars, auxVars>>
    \/ SearchPageEnd /\ UNCHANGED <<sessionVars, inputVars, dispatchVars, auxVars>>
    \/ SearchResume /\ UNCHANGED <<sessionVars, inputVars, dispatchVars, auxVars>>

AnyServerSpec == AnyServerInit /\ [][AnyServerNext]_vars

DispatchInit ==
    /\ SessionOff
    /\ recs \in {[i \in 1..n |-> n + 1 - i] : n \in 0..MaxRecords}
    /\ page_size \in 1..MaxPage
    /\ max_results = NoCap
    /\ callerFrom = NoDate
    /\ callerTo = NoDate
    /\ now_date = dateparse(MaxRecords)
    /\ SearchIdle
    /\ max_workers \in 1..MaxWorkers
    /\ dpc = "iter"
    /\ units = <<>>
    /\ futures = {}
    /\ log = <<>>
    /\ ListenerOff
    /\ DownloadOff

DispatchNext ==
    \/ /\ dpc = "iter"
       /\ SearchStep
       /\ UNCHANGED <<sessionVars, inputVars, dispatchVars, auxVars>>
    \/ /\ dpc = "iter"
       /\ SearchRaise
       /\ UNCHANGED <<sessionVars, inputVars, dispatchVars, auxVars>>
    \/ Submit /\ UNCHANGED <<sessionVars, inputVars, auxVars>>
    \/ Propagate /\ UNCHANGED <<sessionVars, searchVars, auxVars>>
    \/ \E u \in DOMAIN units : StartUnit(u) /\ UNCHANGED <<sessionVars, searchVars, auxVars>>
    \/ \E u \in DOMAIN units, raises \in BOOLEAN :
          FinishUnit(u, raises) /\ UNCHANGED <<sessionVars, searchVars, auxVars>>
    \/ Exhausted /\ UNCHANGED <<sessionVars, searchVars, auxVars>>
    \/ \E f \in futures : Collect(f) /\ UNCHANGED <<sessionVars, searchVars, auxVars>>
    \/ Return /\ UNCHANGED <<sessionVars, searchVars, auxVars>>

DispatchSpec == DispatchInit /\ [][DispatchNext]_vars

\* the same with progress: the search answers, the pool's threads run and
\* every callback comes to its end, so a step that stays possible is taken
DispatchFairSpec == DispatchSpec /\ WF_vars(DispatchNext)

\* search() is not running
NoSearch ==
    /\ recs = <<>>
    /\ page_size = 1
    /\ max_results = NoCap
    /\ callerFrom = NoDate
    /\ callerTo = NoDate
    /\ now_date = 0
    /\ SearchIdle

ListenerInit ==
    /\ SessionOff
    /\ NoSearch
    /\ DispatchOff
    /\ DownloadOff
    /\ lpc = "serving"
    /\ shutdown_request = FALSE
    /\ pending = <<>>
    /\ handlers = <<>>
    /\ auth_code = NoCode

ListenerNext ==
    \/ /\ \E query \in Queries : Arrive(query)
       /\ UNCHANGED <<sessionVars, searchVars, dispatchVars, downloadVars>>
    \/ Accept /\ UNCHANGED <<sessionVars, searchVars, dispatchVars, downloadVars>>
    \/ /\ \E h \in DOMAIN handlers : DoGet(h)
       /\ UNCHANGED <<sessionVars, searchVars, dispatchVars, downloadVars>>
    \/ ServeExit /\ UNCHANGED <<sessionVars, searchVars, dispatchVars, downloadVars>>
    \/ Interrupt /\ UNCHANGED <<sessionVars, searchVars, dispatchVars, downloadVars>>

ListenerSpec == ListenerInit /\ [][ListenerNext]_vars

DownloadInit ==
    /\ SessionOff
    /\ NoSearch
    /\ DispatchOff
    /\ ListenerOff
    /\ localFile \in {NoFile} \cup Contents
    /\ remote \in Contents
    /\ dirOK \in BOOLEAN
    /\ calls = <<>>

DownloadNext ==
    \/ /\ \E force \in BOOLEAN, c \in Contents, status \in GetStatuses :
              DownloadFile(force, calculate_etag(c), status)
       /\ UNCHANGED <<sessionVars, searchVars, dispatchVars, listenerVars>>
    \/ /\ RemoteChange
       /\ UNCHANGED <<sessionVars, searchVars, dispatchVars, listenerVars>>

DownloadSpec == DownloadInit /\ [][DownloadNext]_vars

-----------------------------------------------------------------------------
(* Properties of the session and run_query, under Spec *)

\* C1: when the first response to run_query carries the authentication
\* error although a token was held, and the second attempt succeeds, the
\* caller gets the success result, and exactly one token acquisition took
\* place in between, so the retry carries a token other than the first one.
C1_AuthRetryForcesRefresh ==
    (/\ q.result # "none"
     /\ q.resps = <<"auth", "ok">>
     /\ q.reqs[1].token # NoToken)
    => /\ q.result = "ok"
       /\ Len(q.reqs) = 2
       /\ q.acquired = 1
       /\ q.reqs[2].token # q.reqs[1].token

\* C2: one call to run_query sends at most two requests.
C2_AtMostTwoRequests == Len(q.reqs) <= 2

\* C3: every firing of the refresh timer acquires a new token and arms a new
\* timer: once the timer's thread is through refresh_token, as many renewals
\* as firings have taken place.
C3_TimerRenewsToken ==
    pc["timer"] = "idle" => timerRenewed = timerFired

\* C10 as stated: every request run_query sends carries a bearer token (a
\* call without a token fails before sending).
C10_TokenPresentOrFailFast ==
    \A i \in DOMAIN q.reqs : q.reqs[i].headers # <<>>

\* C10 as amended: every request carries the bearer token exactly when a
\* token is held at the time it is sent, and no call ends without having
\* sent its request: a missing token does not make run_query fail fast.
C10_BearerIffTokenHeld ==
    /\ \A i \in DOMAIN q.reqs :
          q.reqs[i].headers = IF q.reqs[i].token # NoToken
                              THEN <<q.reqs[i].token>> ELSE <<>>
    /\ q.result # "none" => Len(q.reqs) >= 1
    /\ pc["main"] = "sent" => Len(q.reqs) >= 1

\* a call answered normally whose first request went out without a token and
\* whose retry carried one
C10_Witness ==
    /\ q.result = "ok"
    /\ Len(q.reqs) = 2
    /\ q.reqs[1].headers = <<>>
    /\ q.reqs[2].headers # <<>>

\* C11: a call whose last response was a 200 with errors, none of them the
\* authentication error, ends by raising the query error.
C11_GraphQLErrorRaises ==
    (/\ pc["main"] = "idle"
     /\ q.resps # <<>>
     /\ q.resps[Len(q.resps)] = "gqlerr")
    => q.result = "RiverscapesAPIException"

\* C13: once shutdown() has run, directly or through the context manager's
\* exit after a normal or a failed body, no refresh timer is pending.
C13_NoTimerAfterShutdown == shut => token_timeout.st # "armed"

\* C16: whenever acquiring a token fails (no authorization code came back,
\* the token endpoint refused the interactive exchange, or the machine
\* exchange failed) what is raised is RiverscapesAPIException.
C16_AcquisitionRaisesAuthError ==
    /\ lastRefresh \in {"none", "ok", "skipped", "RiverscapesAPIException"}
    /\ q.result \in {"none", "ok", "None", "RiverscapesAPIException"}

\* C18: a call whose last response had a status other than 200 (every
\* non-2xx status is one) has raised the query error carrying that status,
\* the query text and the variables; that response set off no call of
\* refresh_token and no further request.
C18_FailureStatusRaises ==
    (/\ q.resps # <<>>
     /\ q.resps[Len(q.resps)] = "http")
    => /\ q.status # OkStatus
       /\ q.result = "RiverscapesAPIException"
       /\ q.error = <<q.status, q.query, q.variables>>
       /\ Len(q.reqs) = Len(q.resps)
       /\ q.refreshes = Cardinality({i \in DOMAIN q.resps : q.resps[i] = "auth"})

\* a retry after an authentication error is answered by a server error
C18_Witness ==
    /\ q.resps = <<"auth", "http">>
    /\ q.status = 500
    /\ q.error = <<500, "query files", "{id: 1}">>

\* C25: a call of refresh_token without force that finds a token and returns
\* early leaves the token, the token endpoint and the refresh timer as they
\* were: a pending timer stays armed.
C25_SkippedRefreshChangesNothing ==
    [][(/\ lastRefresh # "skipped"
        /\ lastRefresh' = "skipped"
        /\ access_token # NoToken)
       => /\ access_token' = access_token
          /\ issued' = issued
          /\ token_timeout' = token_timeout]_vars

\* C17: at no time are two threads inside refresh_token's acquisition
\* section (from the token exchange to the assignment of access_token).
C17_OneThreadAcquires ==
    Cardinality({th \in Threads : pc[th] \in {"acquiring", "storing"}}) <= 1

-----------------------------------------------------------------------------
(* Properties of search(), under SearchSpec *)

\* the result cap: max_results when set and positive, otherwise none
Cap == IF max_results # NoCap /\ max_results > 0 THEN max_results
       ELSE overall_total

\* newest first
Descending(s) == \A i, j \in DOMAIN s : i < j => recs[s[i]] >= recs[s[j]]

\* C4: a finished search whose total needs several pages has yielded
\* min(overallTotal, cap) records.
C4_YieldsMinTotalCap ==
    (spc = "done" /\ overall_total > page_size)
    => Len(yielded) = Min(overall_total, Cap)

C21_CapStopsSearch ==
    max_results > 0 =>
        /\ Len(yielded) <= max_results
        /\ outer_counter >= max_results =>
              /\ spc = "done"
              /\ Len(yielded) = max_results

\* the cap was hit in the middle of a page, with more records matching
C21_Witness ==
    /\ max_results > 0
    /\ spc = "done"
    /\ outer_counter = max_results
    /\ inner_counter < Len(projects)
    /\ overall_total > max_results

\* C22: once a page request has returned no record, no step of the search
\* sends another page request or yields a record: the search only ends.
C22_EmptyPageEndsSearch ==
    [][(spc # "idle" /\ num_results = 0)
       => /\ pageReqs' = pageReqs
          /\ yielded' = yielded
          /\ spc' \in {"loop", "done"}]_vars

\* the search has ended on an empty page with fewer records yielded than the
\* probe counted
C22_Witness ==
    /\ spc = "done"
    /\ num_results = 0
    /\ pageReqs # <<>>
    /\ outer_counter < overall_total

-----------------------------------------------------------------------------
(* Properties of search() against any server, under AnyServerSpec *)

\* C28: whatever total and pages the server answers with, at most
\* overall_total page requests follow the probe, and every page that held a
\* record has advanced the count of yielded records by at least one; a page
\* without records ends the search.
C28_PageRequestsBounded ==
    /\ Len(pageReqs) <= overall_total
    /\ spc = "loop" =>
          \/ outer_counter >= Len(pageReqs)
          \/ num_results = 0 /\ ~LoopGuard

\* the search has ended after as many page requests as the probe's total
C28_Witness ==
    /\ spc = "done"
    /\ overall_total >= 2
    /\ Len(pageReqs) = overall_total

-----------------------------------------------------------------------------
(* Properties of process_search_results_async, under DispatchSpec *)

\* C8: never more than max_workers callbacks are executing.
C8_BoundedDispatch == Cardinality(Running) <= max_workers

\* max_workers = 2 callbacks executing while the search, which produces more
\* records than that, has the next record ready
C8_Witness ==
    /\ max_workers >= 2
    /\ Len(recs) > max_workers
    /\ Cardinality(Running) = max_workers
    /\ spc = "yield"

\* C9: when the dispatcher has returned, every unit whose callback raised
\* has a log entry.
C9_EveryFailureLogged ==
    dpc = "returned" =>
        \A u \in DOMAIN units :
            units[u].st = "exc" => \E i \in DOMAIN log : log[i].unit = u

\* C19: the units submitted and not yet finished never number more than
\* max_workers: at capacity the producer submits the next unit only after
\* one of the units in flight has finished.
C19_InFlightBounded ==
    Cardinality({u \in DOMAIN units : ~Finished(u)}) <= max_workers

\* more units than max_workers have been submitted, the producer having
\* waited for a finished one, and the units in flight are at capacity again
C19_Witness ==
    /\ Len(units) > max_workers
    /\ Cardinality({u \in DOMAIN units : ~Finished(u)}) = max_workers
    /\ \A f \in futures : ~Finished(f)

\* C26: the units submitted are, in order, the records the search has
\* yielded, each once (the record just yielded is submitted by the next
\* step of the for loop), and when the dispatcher has returned the callback
\* has run for every one of them.
C26_OneUnitPerRecord ==
    /\ Len(units) = IF spc = "yield" THEN Len(yielded) - 1 ELSE Len(yielded)
    /\ \A u \in DOMAIN units : units[u].rec = yielded[u]
    /\ dpc = "returned" => \A u \in DOMAIN yielded : Finished(u)

\* the dispatcher has returned after submitting more records than
\* max_workers, some of them pulled while the in-flight set was full
C26_Witness ==
    /\ dpc = "returned"
    /\ Len(yielded) > max_workers
    /\ Len(units) = Len(yielded)

\* C27: every error log entry names the record of the unit whose callback
\* raised.
C27_LogNamesFailingRecord ==
    \A i \in DOMAIN log : log[i].named = units[log[i].unit].rec

\* C29: the dispatcher never deadlocks: with a search that answers and
\* callbacks that end, it is eventually left, by returning or, when the
\* search raised, by that exception.
C29_DispatcherEventuallyLeft == <>(dpc \in {"returned", "raised"})

\* the dispatcher has returned although the producer, with a single worker,
\* had to wait before each submit but the first
C29_Witness ==
    /\ dpc = "returned"
    /\ max_workers = 1
    /\ Len(units) >= 3

\* C15: when the dispatcher is left, by returning or by the exception of a
\* search that failed mid-iteration, every submitted unit has run to its end.
C15_AllUnitsFinishedOnExit ==
    dpc \in {"returned", "raised"} => \A u \in DOMAIN units : Finished(u)

\* the search failed after units had been submitted
C15_Witness ==
    /\ dpc = "raised"
    /\ pageReqs # <<>>
    /\ Len(units) >= 2

-----------------------------------------------------------------------------
(* Properties of the local redirect listener, under ListenerSpec *)

\* C14: at most one GET carrying code and state is ever answered, and no
\* request that arrived after such a GET is answered.
C14_OneCodeRequestHandled ==
    /\ Cardinality({h \in DOMAIN handlers :
            /\ handlers[h].query = {"code", "state"}
            /\ handlers[h].st # "running"}) <= 1
    /\ \A h, k \in DOMAIN handlers :
           (h < k /\ handlers[h].query = {"code", "state"})
           => handlers[k].st = "running"

-----------------------------------------------------------------------------
(* Properties of download_file, under DownloadSpec *)

\* C12: when a call transferred content whose checksum equals the
\* descriptor's, the next call with the same descriptor checksum and force
\* false issues no GET, leaves the local file as it was and returns False.
C12_SecondDownloadSkips ==
    \A i \in 1..(Len(calls) - 1) :
        LET first == calls[i]
            second == calls[i + 1]
        IN  (/\ first.get
             /\ calculate_etag(first.after) = first.etag
             /\ second.etag = first.etag
             /\ ~second.force)
            => (/\ ~second.get
                /\ second.after = second.before
                /\ second.ret = "False")

C12_Witness ==
    \E i \in 1..(Len(calls) - 1) :
        /\ calls[i].get
        /\ calls[i].status = "ok"
        /\ calculate_etag(calls[i].after) = calls[i].etag
        /\ calls[i + 1].etag = calls[i].etag
        /\ ~calls[i + 1].force
        /\ calls[i + 1].ret = "False"

\* what C24 names as the cases in which the content is transferred
TransferNeeded(call) ==
    \/ call.force
    \/ call.before = NoFile
    \/ calculate_etag(call.before) # call.etag

\* C24 as stated: every call transfers exactly when force is set, the local
\* file is absent or its checksum differs from the descriptor's; otherwise
\* it leaves the file as it was and returns False.
C24_TransfersIffNeeded ==
    \A i \in DOMAIN calls :
        /\ calls[i].get <=> TransferNeeded(calls[i])
        /\ ~TransferNeeded(calls[i]) =>
              /\ calls[i].after = calls[i].before
              /\ calls[i].ret = "False"

\* C24 as amended: the same for every call whose destination path passes
\* the length guard; a call whose path fails it raises, transfers nothing
\* and leaves the file as it was, whatever force and the checksums are.
C24_TransfersIffNeededAndPathValid ==
    \A i \in DOMAIN calls :
        IF calls[i].ret = "RiverscapesAPIException"
        THEN /\ ~dirOK
             /\ ~calls[i].get
             /\ calls[i].after = calls[i].before
        ELSE /\ dirOK
             /\ calls[i].get <=> TransferNeeded(calls[i])
             /\ calls[i].get => calls[i].ret = "True"
             /\ ~TransferNeeded(calls[i]) =>
                   /\ calls[i].after = calls[i].before
                   /\ calls[i].ret = "False"

\* a file found in place with the descriptor's checksum was skipped, and a
\* file found with another checksum was fetched without force
C24_Witness ==
    /\ Len(calls) = 2
    /\ ~calls[1].force /\ ~calls[2].force
    /\ calls[1].before # NoFile /\ calls[2].before # NoFile
    /\ calls[1].ret = "False"
    /\ calls[2].get
    /\ calculate_etag(calls[2].before) # calls[2].etag

\* C30: a call whose GET of the signed URL failed does not return True and
\* leaves the local file as it was.
C30_FailedGetChangesNothing ==
    \A i \in DOMAIN calls :
        calls[i].status = "failed" =>
            /\ calls[i].ret # "True"
            /\ calls[i].after = calls[i].before

====
